---- MODULE Spec2Model ----
(***************************************************************************)
(* Continuity (think.py): one scheduled run loads the stored thoughts,     *)
(* builds a prompt, asks one provider for a new thought, saves it as a     *)
(* JSON file in thoughts/ and rewrites index.html.  Runs are sequential    *)
(* (single writer).  Text is modelled as sequences of one-character        *)
(* strings, so that the JSON and HTML conversions are real conversions.    *)
(***************************************************************************)
EXTENDS Integers, Sequences, FiniteSets, TLC

\* ---------------------------------------------------------------- bounds
\* Largest value of the wall clock's seconds counter.
MaxSec == 2
\* Largest sub-second (microsecond) reading of the wall clock.
MaxMicro == 1
\* Number of runs the scheduler starts.
MaxRuns == 3

\* ------------------------------------------------------ program constants
\* build_prompt: thoughts[-10:]
PromptWindow == 10
\* update_stream_page: thoughts[-50:]
PageWindow == 50
\* strftime("... %H:%M UTC") keeps minutes: 60 seconds per minute.
SecondsPerMinute == 60

\* --------------------------------------------------------------- inputs
\* Texts a provider may return: a plain one, one holding the characters
\* that JSON and HTML escape, and the empty one.
Contents ==
    { <<"a">>, <<"\\", "\"", "<", "&">>, << >> }

\* urlopen raising (transport error), HTTPError (non-2xx), or a decoded
\* body without the expected text field.
Failures == {"transport", "non_2xx", "missing_field"}

\* ------------------------------------------------------------ text helpers
DigitChars == <<"0", "1", "2", "3", "4", "5", "6", "7", "8", "9">>

IsDigit(c) == \E d \in 1..10 : DigitChars[d] = c

DigitVal(c) == (CHOOSE d \in 1..10 : DigitChars[d] = c) - 1

RECURSIVE ToDigits(_)
\* decimal rendering of a natural number (str(int), %S, json int)
ToDigits(n) ==
    IF n < 10 THEN <<DigitChars[n + 1]>>
    ELSE ToDigits(n \div 10) \o <<DigitChars[(n % 10) + 1]>>

RECURSIVE FromDigits(_)
\* int() of a decimal digit string
FromDigits(s) ==
    IF s = <<>> THEN 0
    ELSE FromDigits(SubSeq(s, 1, Len(s) - 1)) * 10 + DigitVal(s[Len(s)])

AllDigits(s) == s # <<>> /\ \A i \in 1..Len(s) : IsDigit(s[i])

\* position of the first c in s, 0 when absent
IndexOf(s, c) ==
    IF \E i \in 1..Len(s) : s[i] = c
    THEN CHOOSE i \in 1..Len(s) : s[i] = c /\ \A j \in 1..(i - 1) : s[j] # c
    ELSE 0

\* s[-n:]
LastN(s, n) == IF Len(s) <= n THEN s ELSE SubSeq(s, Len(s) - n + 1, Len(s))

RECURSIVE Reversed(_)
Reversed(s) ==
    IF s = <<>> THEN <<>> ELSE <<s[Len(s)]>> \o Reversed(SubSeq(s, 1, Len(s) - 1))

\* ------------------------------------------------------------- datetime
\* now.isoformat(): the microsecond part is printed only when non-zero.
IsoFormat(now) ==
    ToDigits(now.sec) \o (IF now.us = 0 THEN <<>> ELSE <<".">> \o ToDigits(now.us))

\* does datetime.fromisoformat accept the string
IsIsoFormat(ts) ==
    LET dot == IndexOf(ts, ".") IN
    IF dot = 0 THEN AllDigits(ts)
    ELSE /\ AllDigits(SubSeq(ts, 1, dot - 1))
         /\ AllDigits(SubSeq(ts, dot + 1, Len(ts)))

\* datetime.fromisoformat
FromIsoFormat(ts) ==
    LET dot == IndexOf(ts, ".") IN
    IF dot = 0 THEN [sec |-> FromDigits(ts), us |-> 0]
    ELSE [sec |-> FromDigits(SubSeq(ts, 1, dot - 1)),
          us  |-> FromDigits(SubSeq(ts, dot + 1, Len(ts)))]

\* now.strftime("%Y%m%d_%H%M%S"): fixed width, second resolution; the
\* fixed-width stamp sorts lexically as the seconds counter sorts.
FileName(now) == now.sec

\* dt.strftime("%B %d, %Y at %H:%M UTC"): minute resolution
TimeStr(dt) == ToDigits(dt.sec \div SecondsPerMinute) \o <<" ", "U", "T", "C">>

\* ----------------------------------------------------------------- JSON
\* mutant: the backslash is written unescaped
RECURSIVE JsonEscape_KeepsBackslash(_)
JsonEscape_KeepsBackslash(s) ==
    IF s = <<>> THEN <<>>
    ELSE (IF s[1] = "\"" THEN <<"\\", s[1]>> ELSE <<s[1]>>)
         \o JsonEscape_KeepsBackslash(Tail(s))

RECURSIVE JsonEscape(_)
\* json.dump of the characters of a str: quote and backslash are escaped
JsonEscape(s) ==
    IF s = <<>> THEN <<>>
    ELSE (IF s[1] = "\"" \/ s[1] = "\\" THEN <<"\\", s[1]>> ELSE <<s[1]>>)
         \o JsonEscape(Tail(s))

JsonDumpStr(s) == <<"\"">> \o JsonEscape(s) \o <<"\"">>

RECURSIVE JsonUnescape(_)
\* json.load of the inside of a string literal
JsonUnescape(s) ==
    IF s = <<>> THEN <<>>
    ELSE IF s[1] = "\\" /\ Len(s) >= 2
         THEN <<s[2]>> \o JsonUnescape(SubSeq(s, 3, Len(s)))
         ELSE <<s[1]>> \o JsonUnescape(Tail(s))

\* is the text one well-formed string literal
RECURSIVE WellEscaped(_)
WellEscaped(s) ==
    IF s = <<>> THEN TRUE
    ELSE IF s[1] = "\\" THEN Len(s) >= 2 /\ WellEscaped(SubSeq(s, 3, Len(s)))
    ELSE s[1] # "\"" /\ WellEscaped(Tail(s))

IsJsonStr(t) ==
    /\ Len(t) >= 2
    /\ t[1] = "\""
    /\ t[Len(t)] = "\""
    /\ WellEscaped(SubSeq(t, 2, Len(t) - 1))

JsonLoadStr(t) == JsonUnescape(SubSeq(t, 2, Len(t) - 1))

\* json.dump(thought, f, indent=2): the three members in order, each as its
\* JSON text.
JsonDump(thought) ==
    << JsonDumpStr(thought.content),
       JsonDumpStr(thought.timestamp),
       ToDigits(thought.thought_number) >>

\* json.load(fh): <<dict>> when the text parses, <<>> when it raises.
JsonLoad(text) ==
    IF /\ Len(text) = 3
       /\ IsJsonStr(text[1])
       /\ IsJsonStr(text[2])
       /\ AllDigits(text[3])
    THEN << [content        |-> JsonLoadStr(text[1]),
             timestamp      |-> JsonLoadStr(text[2]),
             thought_number |-> FromDigits(text[3])] >>
    ELSE <<>>

\* ----------------------------------------------------------------- HTML
RECURSIVE HtmlEscape(_)
\* .replace("&", "&amp;").replace("<", "&lt;").replace(">", "&gt;")
HtmlEscape(s) ==
    IF s = <<>> THEN <<>>
    ELSE (CASE s[1] = "&" -> <<"&", "a", "m", "p", ";">>
            [] s[1] = "<" -> <<"&", "l", "t", ";">>
            [] s[1] = ">" -> <<"&", "g", "t", ";">>
            [] OTHER      -> <<s[1]>>)
         \o HtmlEscape(Tail(s))

\* ------------------------------------------------------------------ state
VARIABLES
    clock,      \* latest reading of the wall clock: [sec, us]
    dirExists,  \* does thoughts/ exist
    store,      \* thoughts/*.json: file name -> file text
    page,       \* index.html: <<>> when absent, else <<document>>
    pc,         \* position of the current run inside main
    env,        \* which API keys the environment of the current run holds
    thoughts,   \* main's local list `thoughts`
    prompt,     \* main's local `prompt`
    requests,   \* providers the current run has sent a request to
    content,    \* main's local `content`
    thought,    \* <<dict>> returned by save_thought, <<>> before
    result,     \* how the current run ended
    exitCode,   \* {} while running, else {exit status}
    store0,     \* store when the current run started
    page0,      \* page when the current run started
    runs        \* runs started so far

vars ==
    << clock, dirExists, store, page, pc, env, thoughts, prompt, requests,
       content, thought, result, exitCode, store0, page0, runs >>

RECURSIVE SortedNames(_)
\* sorted(...): ascending file names
SortedNames(S) ==
    IF S = {} THEN <<>>
    ELSE LET m == CHOOSE x \in S : \A y \in S : x <= y
         IN  <<m>> \o SortedNames(S \ {m})

RECURSIVE LoadFiles(_, _)
\* the loop of load_thoughts: parse each file, skip the ones that raise
LoadFiles(names, files) ==
    IF names = <<>> THEN <<>>
    ELSE JsonLoad(files[names[1]]) \o LoadFiles(Tail(names), files)

\* load_thoughts over a given directory state
LoadThoughtsOf(exists, files) ==
    IF ~exists THEN <<>> ELSE LoadFiles(SortedNames(DOMAIN files), files)

load_thoughts == LoadThoughtsOf(dirExists, store)

RECURSIVE JoinParts(_)
\* "\n\n---\n\n".join(parts)
JoinParts(parts) ==
    IF parts = <<>> THEN <<>>
    ELSE IF Len(parts) = 1 THEN parts[1]
    ELSE parts[1] \o <<"\n", "-", "\n">> \o JoinParts(Tail(parts))

\* build_prompt: identity, the last ten thoughts (or the placeholder), closing
build_prompt(ts) ==
    LET recent == LastN(ts, PromptWindow)
        parts  == [i \in 1..Len(recent) |->
                     <<"[">> \o recent[i].timestamp \o <<"]", "\n">>
                             \o recent[i].content]
    IN  <<"IDENTITY">>
        \o (IF parts # <<>> THEN JoinParts(parts) ELSE <<"(No previous thoughts.)">>)
        \o <<"Continue.">>

\* update_stream_page: the document written to index.html
RenderPage(ts) ==
    LET recent == Reversed(LastN(ts, PageWindow))
        Block(t) ==
            [num      |-> t.thought_number,
             time_str |-> IF IsIsoFormat(t.timestamp)
                          THEN TimeStr(FromIsoFormat(t.timestamp))
                          ELSE t.timestamp,
             content  |-> HtmlEscape(t.content)]
    IN  [total  |-> Len(ts),
         blocks |-> [i \in 1..Len(recent) |-> Block(recent[i])]]

\* datetime.now(timezone.utc): the wall clock does not run backwards, and
\* two readings may fall in the same second or be equal.
Now ==
    { t \in [sec : 0..MaxSec, us : 0..MaxMicro] :
        \/ t.sec > clock.sec
        \/ t.sec = clock.sec /\ t.us >= clock.us }

\* mutant: only the files that parse are counted
NewThought_CountsParseable(c, now) ==
    [content        |-> c,
     timestamp      |-> IsoFormat(now),
     thought_number |-> Len(LoadThoughtsOf(TRUE, store)) + 1]

\* the dict save_thought builds (lines 104-110)
NewThought(c, now) ==
    [content        |-> c,
     timestamp      |-> IsoFormat(now),
     thought_number |-> Cardinality(DOMAIN store) + 1]

\* open(path, "w") followed by a write of text: creates or replaces the file
WriteFile(files, name, text) ==
    [f \in DOMAIN files \cup {name} |-> IF f = name THEN text ELSE files[f]]

\* mutant: the anthropic key takes precedence
ChosenProvider_AnthropicFirst == IF env.anthropic THEN "anthropic" ELSE "gemini"

\* gemini_key is tried first, anthropic only without it (lines 189-193)
ChosenProvider == IF env.gemini THEN "gemini" ELSE "anthropic"

Init ==
    /\ clock = [sec |-> 0, us |-> 0]
    /\ dirExists = FALSE
    /\ store = << >>
    /\ page = << >>
    /\ pc = "idle"
    /\ env = [gemini |-> FALSE, anthropic |-> FALSE]
    /\ thoughts = << >>
    /\ prompt = << >>
    /\ requests = << >>
    /\ content = << >>
    /\ thought = << >>
    /\ result = "none"
    /\ exitCode = {}
    /\ store0 = << >>
    /\ page0 = << >>
    /\ runs = 0

\* ---------------------------------------------------------------- actions
\* the scheduler starts main in a fresh process
BeginRun(g, a) ==
    /\ pc \in {"idle", "exited"}
    /\ runs < MaxRuns
    /\ runs' = runs + 1
    /\ env' = [gemini |-> g, anthropic |-> a]
    /\ requests' = << >>
    /\ content' = << >>
    /\ thought' = << >>
    /\ store0' = store
    /\ page0' = page
    /\ UNCHANGED << clock, dirExists, store, page >>

\* mutant: the records are loaded and the prompt built before the key check
MainNoKey_LoadsFirst ==
    /\ BeginRun(FALSE, FALSE)
    /\ thoughts' = load_thoughts
    /\ prompt' = build_prompt(thoughts')
    /\ pc' = "exited"
    /\ result' = "no_key"
    /\ exitCode' = {1}

\* main, lines 179-183, neither key set: print the error and sys.exit(1)
MainNoKey ==
    /\ BeginRun(FALSE, FALSE)
    /\ thoughts' = << >>
    /\ prompt' = << >>
    /\ pc' = "exited"
    /\ result' = "no_key"
    /\ exitCode' = {1}

\* main, lines 179-181, at least one key set: fall through to the load
MainKeys(g, a) ==
    /\ g \/ a
    /\ BeginRun(g, a)
    /\ thoughts' = << >>
    /\ prompt' = << >>
    /\ pc' = "checked"
    /\ result' = "none"
    /\ exitCode' = {}

\* main, lines 184-187: load_thoughts, build_prompt
LoadAndBuild ==
    /\ pc = "checked"
    /\ thoughts' = load_thoughts
    /\ prompt' = build_prompt(thoughts')
    /\ pc' = "thinking"
    /\ UNCHANGED << clock, dirExists, store, page, env, requests, content,
                    thought, result, exitCode, store0, page0, runs >>

\* main, lines 188-194: the chosen provider returns the text c
ThinkOk(c) ==
    /\ pc = "thinking"
    /\ requests' = Append(requests, ChosenProvider)
    /\ content' = c
    /\ pc' = "generated"
    /\ UNCHANGED << clock, dirExists, store, page, env, thoughts, prompt,
                    thought, result, exitCode, store0, page0, runs >>

\* mutant: the failure is reported but the page is regenerated all the same
ThinkFails_RendersPage(kind) ==
    /\ pc = "thinking"
    /\ requests' = Append(requests, ChosenProvider)
    /\ page' = << RenderPage(thoughts) >>
    /\ pc' = "exited"
    /\ result' = kind
    /\ exitCode' = {1}
    /\ UNCHANGED << clock, dirExists, store, env, thoughts, prompt,
                    content, thought, store0, page0, runs >>

\* main, lines 188-197: the chosen provider raises; print and sys.exit(1)
ThinkFails(kind) ==
    /\ pc = "thinking"
    /\ requests' = Append(requests, ChosenProvider)
    /\ pc' = "exited"
    /\ result' = kind
    /\ exitCode' = {1}
    /\ UNCHANGED << clock, dirExists, store, page, env, thoughts, prompt,
                    content, thought, store0, page0, runs >>

\* mutant: the new thought is saved but not appended to the list rendered
SaveThought_NoAppend(now) ==
    /\ pc = "generated"
    /\ now \in Now
    /\ clock' = now
    /\ dirExists' = TRUE
    /\ LET t == NewThought(content, now) IN
        /\ store' = WriteFile(store, FileName(now), JsonDump(t))
        /\ thought' = <<t>>
    /\ pc' = "saved"
    /\ UNCHANGED << page, env, thoughts, prompt, requests, content, result,
                    exitCode, store0, page0, runs >>

\* main, lines 198-199: save_thought writes the file, thoughts.append
SaveThought(now) ==
    /\ pc = "generated"
    /\ now \in Now
    /\ clock' = now
    /\ dirExists' = TRUE
    /\ LET t == NewThought(content, now) IN
        /\ store' = WriteFile(store, FileName(now), JsonDump(t))
        /\ thought' = <<t>>
        /\ thoughts' = Append(thoughts, t)
    /\ pc' = "saved"
    /\ UNCHANGED << page, env, prompt, requests, content, result,
                    exitCode, store0, page0, runs >>

\* save_thought, lines 111-112: open(..., "w") has truncated or created the
\* file and the write stops (OSError, or the process is killed) with the
\* file empty (k = 0) or cut short (k = 1); the exception is not caught in main.
SaveThoughtWriteFails(now, k) ==
    /\ pc = "generated"
    /\ now \in Now
    /\ clock' = now
    /\ dirExists' = TRUE
    /\ LET t == NewThought(content, now) IN
        store' = WriteFile(store, FileName(now), SubSeq(JsonDump(t), 1, k))
    /\ pc' = "exited"
    /\ result' = "write_failed"
    /\ exitCode' = {1}
    /\ UNCHANGED << page, env, thoughts, prompt, requests, content,
                    thought, store0, page0, runs >>

\* main, lines 200-202: update_stream_page overwrites index.html; exit 0
UpdateStreamPage ==
    /\ pc = "saved"
    /\ page' = << RenderPage(thoughts) >>
    /\ pc' = "exited"
    /\ result' = "success"
    /\ exitCode' = {0}
    /\ UNCHANGED << clock, dirExists, store, env, thoughts, prompt, requests,
                    content, thought, store0, page0, runs >>

Next ==
    \/ MainNoKey
    \/ \E g, a \in BOOLEAN : MainKeys(g, a)
    \/ LoadAndBuild
    \/ \E c \in Contents : ThinkOk(c)
    \/ \E kind \in Failures : ThinkFails(kind)
    \/ \E now \in Now : SaveThought(now)
    \/ \E now \in Now, k \in 0..1 : SaveThoughtWriteFails(now, k)
    \/ UpdateStreamPage

Spec == Init /\ [][Next]_vars

\* The runs in which every write to the store completes.
NextNoWriteError ==
    \/ MainNoKey
    \/ \E g, a \in BOOLEAN : MainKeys(g, a)
    \/ LoadAndBuild
    \/ \E c \in Contents : ThinkOk(c)
    \/ \E kind \in Failures : ThinkFails(kind)
    \/ \E now \in Now : SaveThought(now)
    \/ UpdateStreamPage

SpecNoWriteError == Init /\ [][NextNoWriteError]_vars

\* ----------------------------------------------------------- properties
NumFiles(files) == Cardinality(DOMAIN files)

Succeeded == pc = "exited" /\ result = "success"

GenerationFailed == pc = "exited" /\ result \in Failures

NoKeyExit == pc = "exited" /\ result = "no_key"

Parseable(files) == { f \in DOMAIN files : JsonLoad(files[f]) # <<>> }

\* C1: a successful run adds exactly one record file to the store, and no
\* run, whatever its outcome, leaves fewer files than it found.
C1_CountGrowsByOne ==
    /\ NumFiles(store) >= NumFiles(store0)
    /\ Succeeded => NumFiles(store) = NumFiles(store0) + 1

\* C2: a run whose generation call failed exits non-zero and leaves the
\* record files, their contents and the page as they were at its start.
C2_GenerationFailureChangesNothing ==
    GenerationFailed =>
        /\ exitCode = {1}
        /\ store = store0
        /\ page = page0
        /\ thought = << >>

C2_Witness ==
    /\ GenerationFailed
    /\ result = "missing_field"
    /\ ~env.gemini
    /\ store # << >>
    /\ page # << >>

\* C3: without any key the run exits non-zero having loaded nothing, built
\* no prompt, sent no request, written no record and not touched the page.
C3_NoKeyAbortsFirst ==
    NoKeyExit =>
        /\ exitCode = {1}
        /\ thoughts = << >>
        /\ prompt = << >>
        /\ requests = << >>
        /\ thought = << >>
        /\ store = store0
        /\ page = page0

C3_Witness ==
    /\ NoKeyExit
    /\ Parseable(store) # {}
    /\ page # << >>

\* C4: no step removes a written record's file or changes its text.
C4_RecordsImmutable ==
    [][\A f \in Parseable(store) :
          f \in DOMAIN store' /\ store'[f] = store[f]]_vars

\* C5: the thought_number of the record a run appends, as returned and as
\* written, is the number of files in the store before the run (parseable
\* or not) plus one.
C5_NumberIsCountPlusOne ==
    thought # << >> =>
        /\ thought[1].thought_number = NumFiles(store0) + 1
        /\ pc = "saved" =>
             JsonLoad(store[FileName(clock)])[1].thought_number
                 = NumFiles(store0) + 1

C5_Witness ==
    /\ pc = "saved"
    /\ Parseable(store0) # {}
    /\ Parseable(store0) # DOMAIN store0
    /\ thought[1].thought_number = 3

\* C6: a run past the key check sends exactly one request, to gemini when
\* its key is set and to anthropic otherwise, and never a second one, also
\* after a failure with both keys set.
C6_ExactlyOneRequest ==
    /\ Len(requests) <= 1
    /\ pc \in {"checked", "thinking"} => requests = << >>
    /\ (pc \in {"generated", "saved"} \/ (pc = "exited" /\ result # "no_key"))
         => requests = << IF env.gemini THEN "gemini" ELSE "anthropic" >>

C6_Witness ==
    /\ GenerationFailed
    /\ env.gemini
    /\ env.anthropic
    /\ requests = << "gemini" >>

\* C7: the store changes only in a step taken after the generation call
\* returned a text, the page changes only in a step taken after the record
\* was appended, and the page written is the rendering of the records
\* loaded at the start of the run followed by the new record.
C7_AppendThenRender ==
    [][ /\ store' # store =>
             /\ pc = "generated"
             /\ Len(requests) = 1
             /\ page' = page
        /\ page' # page =>
             /\ pc = "saved"
             /\ thought # << >>
             /\ JsonLoad(store[FileName(clock)]) = thought
             /\ store' = store
             /\ page' = << RenderPage(Append(LoadThoughtsOf(TRUE, store0),
                                             thought[1])) >>
      ]_vars

C7_Witness ==
    /\ Succeeded
    /\ Len(page[1].blocks) >= 2
    /\ page # page0

\* C8: the record save_thought returned is among the records load_thoughts
\* reads back, with the same content, timestamp and thought_number.
C8_RoundTrip ==
    pc = "saved" =>
        /\ \E i \in 1..Len(load_thoughts) : load_thoughts[i] = thought[1]
        /\ JsonLoad(store[FileName(clock)]) = thought

C8_Witness ==
    /\ pc = "saved"
    /\ thought[1].content = <<"\\", "\"", "<", "&">>
    /\ clock.us # 0
    /\ store0 # << >>

\* C9: no two record files hold the same thought_number.
C9_NumbersUnique ==
    \A f, g \in Parseable(store) :
        f # g => JsonLoad(store[f])[1].thought_number
                     # JsonLoad(store[g])[1].thought_number

\* C10: after a successful run the page's total is the number of parseable
\* record files, and each block on the page shows a record some file holds.
C10_PageAgreesWithStore ==
    Succeeded =>
        /\ page[1].total = Cardinality(Parseable(store))
        /\ \A i \in 1..Len(page[1].blocks) :
             \E f \in Parseable(store) :
                LET r == JsonLoad(store[f])[1] IN
                /\ page[1].blocks[i].num = r.thought_number
                /\ page[1].blocks[i].content = HtmlEscape(r.content)

====
